---- MODULE Spec2Model ----
(***************************************************************************)
(* Model of yp.deps: parse_pipdeptree, build_nested_deps and               *)
(* package_dependencies (src/yp/deps.py).                                  *)
(*                                                                         *)
(* Strings that the code parses or concatenates (package names, version    *)
(* strings, requirement strings) are sequences of one-character strings,   *)
(* so that f"{pkg_name}{req_str}", SpecifierSet(...) and parse_version(...)*)
(* are computed character by character.  Package keys are only compared    *)
(* and used as dict keys, so they are plain strings.                       *)
(*                                                                         *)
(* A Python dict is a record [keys, val]: keys is the insertion order      *)
(* (what iteration follows), val the mapping.                              *)
(***************************************************************************)
EXTENDS Integers, Sequences, FiniteSets, TLC

VARIABLES
    data,         \* the raw pipdeptree records (package_dependencies_tree output)
    info_by_key,  \* parse_pipdeptree's first result
    flat_deps,    \* parse_pipdeptree's second result
    pc,           \* "raw" -> "parsed" -> "done"
    call,         \* the arguments of the query made on the snapshot
    collected,    \* collect_deps' all_deps when the query ended, and its calls
    result        \* what the query returned or raised

vars == <<data, info_by_key, flat_deps, pc, call, collected, result>>

(***************************************************************************)
(* Bounds of the model.                                                    *)
(***************************************************************************)
\* Most dependency edges in a generated raw tree.
MaxEdges == 4
\* Python's recursion limit (sys.getrecursionlimit(), 1000 by default),
\* scaled down: deeper than any acyclic recursion over Keys.
RecursionLimit == 6

(***************************************************************************)
(* The sample universe the inputs are drawn from.                          *)
(***************************************************************************)
KeyOrder == <<"a", "b", "c">>
Keys == {KeyOrder[i] : i \in 1..Len(KeyOrder)}
KeyIndex(k) == CHOOSE i \in 1..Len(KeyOrder) : KeyOrder[i] = k

\* The display name of a package differs from its key.
PackageName(k) ==
    CASE k = "a" -> <<"A">>
      [] k = "b" -> <<"B">>
      [] OTHER   -> <<"C">>

InstalledVersion(k) ==
    CASE k = "a" -> <<"1", ".", "5">>
      [] k = "b" -> <<"2", ".", "1">>
      [] OTHER   -> <<"0", ".", "9">>

\* Requirement strings: none, two valid specifiers, and the 'Any' that
\* pipdeptree emits for an unconstrained dependency (deps.py line 44).
ReqList ==
    << <<>>,
       <<">", "=", "1", ".", "0">>,
       <<"<", "2", ".", "0">>,
       <<"A", "n", "y">> >>
ReqStrs == {ReqList[i] : i \in 1..Len(ReqList)}

Formats == {"names", "names_with_req", "tuples", "json"}

(***************************************************************************)
(* Python dicts.                                                           *)
(***************************************************************************)
EmptyMap == [x \in {} |-> <<>>]
EmptyDict == [keys |-> <<>>, val |-> EmptyMap]

DictHas(d, k) == k \in DOMAIN d.val

\* d.get(k, default)
DictGet(d, k, default) == IF DictHas(d, k) THEN d.val[k] ELSE default

\* d[k] = v : a new key goes last, an old key keeps its place.
DictSet(d, k, v) ==
    IF DictHas(d, k)
    THEN [d EXCEPT !.val[k] = v]
    ELSE [keys |-> Append(d.keys, k), val |-> (k :> v) @@ d.val]

RangeOf(s) == {s[i] : i \in 1..Len(s)}

(***************************************************************************)
(* packaging.version.parse and packaging.specifiers.SpecifierSet, as the   *)
(* code calls them (deps.py lines 272-273, 294-295, 336-339).  The         *)
(* fragment modelled: release-only versions (digits separated by dots)     *)
(* and single-clause specifiers with the operators ~=, ==, !=, <=, >=, <,  *)
(* > and no white space; every requirement and version string the inputs   *)
(* contain is in it or is rejected by packaging as well.                   *)
(***************************************************************************)
Digits == <<"0", "1", "2", "3", "4", "5", "6", "7", "8", "9">>
IsDigit(c) == \E i \in 1..Len(Digits) : Digits[i] = c
DigitVal(c) == (CHOOSE i \in 1..Len(Digits) : Digits[i] = c) - 1

InvalidVersion == [valid |-> FALSE, release |-> <<>>]

\* Scan s from position i: cur is the number being read (-1: no digit yet),
\* acc the release segments read so far.
RECURSIVE ScanRelease(_, _, _, _)
ScanRelease(s, i, cur, acc) ==
    IF i > Len(s)
    THEN IF cur < 0 THEN InvalidVersion
         ELSE [valid |-> TRUE, release |-> Append(acc, cur)]
    ELSE IF IsDigit(s[i])
         THEN ScanRelease(s, i + 1,
                          (IF cur < 0 THEN 0 ELSE cur) * 10 + DigitVal(s[i]), acc)
         ELSE IF s[i] = "." /\ cur >= 0
              THEN ScanRelease(s, i + 1, -1, Append(acc, cur))
              ELSE InvalidVersion

\* parse_version(s): valid = FALSE stands for packaging's InvalidVersion.
parse_version(s) == ScanRelease(s, 1, -1, <<>>)

\* Release tuples compare segment by segment, the shorter padded with 0.
Seg(r, i) == IF i <= Len(r) THEN r[i] ELSE 0
MaxLen(a, b) == IF Len(a) >= Len(b) THEN Len(a) ELSE Len(b)
VersionLess(a, b) ==
    \E i \in 1..MaxLen(a, b) :
        /\ Seg(a, i) < Seg(b, i)
        /\ \A j \in 1..(i - 1) : Seg(a, j) = Seg(b, j)
VersionEqual(a, b) == \A i \in 1..MaxLen(a, b) : Seg(a, i) = Seg(b, i)

\* The operators, in the order the specifier is matched against them.
Operators ==
    << <<"~", "=">>, <<"=", "=">>, <<"!", "=">>, <<"<", "=">>,
       <<">", "=">>, <<"<">>, <<">">> >>

HasPrefix(s, p) == Len(s) >= Len(p) /\ SubSeq(s, 1, Len(p)) = p
DropPrefix(s, p) == SubSeq(s, Len(p) + 1, Len(s))

InvalidSpecifier == [valid |-> FALSE, operator |-> <<>>, version |-> <<>>]

\* SpecifierSet(req_str) for a non-empty, single-clause req_str: its one
\* Specifier, with .operator and .version as written; valid = FALSE stands
\* for packaging's InvalidSpecifier.
SpecifierSet(req_str) ==
    LET matching == {i \in 1..Len(Operators) : HasPrefix(req_str, Operators[i])}
    IN  IF matching = {} THEN InvalidSpecifier
        ELSE LET i   == CHOOSE m \in matching : \A n \in matching : m <= n
                 ver == DropPrefix(req_str, Operators[i])
                 v   == parse_version(ver)
             IN  IF ~v.valid \/ (Operators[i] = <<"~", "=">> /\ Len(v.release) < 2)
                 THEN InvalidSpecifier
                 ELSE [valid |-> TRUE, operator |-> Operators[i], version |-> ver]

\* parse_version(installed) in spec
SpecContains(spec, installed) ==
    LET v  == parse_version(installed).release
        sv == parse_version(spec.version).release
        op == spec.operator
    IN  CASE op = <<">", "=">> -> ~VersionLess(v, sv)
          [] op = <<"<", "=">> -> ~VersionLess(sv, v)
          [] op = <<">">>      -> VersionLess(sv, v)
          [] op = <<"<">>      -> VersionLess(v, sv)
          [] op = <<"=", "=">> -> VersionEqual(v, sv)
          [] op = <<"!", "=">> -> ~VersionEqual(v, sv)
          [] OTHER             -> /\ ~VersionLess(v, sv)
                                  /\ \A j \in 1..(Len(sv) - 1) : Seg(v, j) = sv[j]

(***************************************************************************)
(* parse_pipdeptree (deps.py lines 156-176).                               *)
(***************************************************************************)
\* { dep["key"]: dep["required_version"] for dep in entry["dependencies"] }
RECURSIVE DepsOfEntry(_, _)
DepsOfEntry(dependencies, acc) ==
    IF dependencies = <<>> THEN acc
    ELSE LET dep == Head(dependencies)
         IN  DepsOfEntry(Tail(dependencies),
                         DictSet(acc, dep.key, dep.required_version))

\* The loop over data recording an adjacency entry only for a package
\* that has dependencies.
RECURSIVE ParseLoopSkipLeaves(_, _, _)
ParseLoopSkipLeaves(entries, info, flat) ==
    IF entries = <<>> THEN [info_by_key |-> info, flat_deps |-> flat]
    ELSE LET entry == Head(entries)
             pkg   == entry.package
             key   == pkg.key
         IN  ParseLoopSkipLeaves(
                 Tail(entries),
                 DictSet(info, key,
                         [package_name      |-> pkg.package_name,
                          installed_version |-> pkg.installed_version]),
                 IF entry.dependencies = <<>> THEN flat
                 ELSE DictSet(flat, key, DepsOfEntry(entry.dependencies, EmptyDict)))

\* The loop over data, from the state (info, flat) it has built so far.
RECURSIVE ParseLoop(_, _, _)
ParseLoop(entries, info, flat) ==
    IF entries = <<>> THEN [info_by_key |-> info, flat_deps |-> flat]
    ELSE LET entry == Head(entries)
             pkg   == entry.package
             key   == pkg.key
         IN  ParseLoop(
                 Tail(entries),
                 DictSet(info, key,
                         [package_name      |-> pkg.package_name,
                          installed_version |-> pkg.installed_version]),
                 DictSet(flat, key, DepsOfEntry(entry.dependencies, EmptyDict)))

parse_pipdeptree(d) == ParseLoop(d, EmptyDict, EmptyDict)

(***************************************************************************)
(* build_nested_deps (deps.py lines 179-194), called with flat_deps given. *)
(* depth counts the active calls; past RecursionLimit Python raises        *)
(* RecursionError, which no frame catches: ok = FALSE.                     *)
(***************************************************************************)
RecursionError == [ok |-> FALSE, value |-> EmptyDict]

RECURSIVE build_nested_deps_at(_, _, _), NestedLoop(_, _, _, _, _)
build_nested_deps_at(package_key, fd, depth) ==
    IF depth > RecursionLimit THEN RecursionError
    ELSE LET deps == DictGet(fd, package_key, EmptyDict)
         IN  NestedLoop(deps.keys, deps, fd, depth, EmptyDict)

\* build_nested_deps' loop emitting every node as a leaf.
RECURSIVE NestedLoopFlat(_, _, _, _, _)
NestedLoopFlat(todo, deps, fd, depth, nested) ==
    IF todo = <<>> THEN [ok |-> TRUE, value |-> nested]
    ELSE NestedLoopFlat(Tail(todo), deps, fd, depth,
                        DictSet(nested, Head(todo),
                                [required_version |-> deps.val[Head(todo)],
                                 dependencies     |-> EmptyDict]))

\* for dep_key, req_ver in flat_deps.get(package_key, {}).items(): ...
NestedLoop(todo, deps, fd, depth, nested) ==
    IF todo = <<>> THEN [ok |-> TRUE, value |-> nested]
    ELSE LET dep_key == Head(todo)
             sub     == build_nested_deps_at(dep_key, fd, depth + 1)
         IN  IF ~sub.ok THEN RecursionError
             ELSE NestedLoop(Tail(todo), deps, fd, depth,
                             DictSet(nested, dep_key,
                                     [required_version |-> deps.val[dep_key],
                                      dependencies     |-> sub.value]))

build_nested_deps(package_key, fd) == build_nested_deps_at(package_key, fd, 1)

(***************************************************************************)
(* collect_deps, the closure inside package_dependencies (deps.py lines    *)
(* 244-249 and, the same text, 307-312).  st is what the recursion reads   *)
(* and writes: all_deps, and for the record the calls made (expanded, in   *)
(* order) and the edges the for loop looked at (examined, in order);       *)
(* overflow is a RecursionError under way.                                 *)
(***************************************************************************)
CollectStart ==
    [all_deps |-> {}, expanded |-> <<>>, examined |-> <<>>, overflow |-> FALSE]

RECURSIVE collect_deps(_, _, _, _), CollectLoop(_, _, _, _, _)
collect_deps(pkg_key, fd, st, depth) ==
    IF depth > RecursionLimit THEN [st EXCEPT !.overflow = TRUE]
    ELSE LET deps == DictGet(fd, pkg_key, EmptyDict)
         IN  CollectLoop(deps.keys, pkg_key, fd,
                         [st EXCEPT !.expanded = Append(@, pkg_key)], depth)

\* collect_deps' loop without the recursive call: only the root's own
\* dependencies are collected.
RECURSIVE CollectLoopShallow(_, _, _, _, _)
CollectLoopShallow(todo, pkg_key, fd, st, depth) ==
    IF todo = <<>> THEN st
    ELSE CollectLoopShallow(
             Tail(todo), pkg_key, fd,
             [st EXCEPT !.all_deps = @ \cup {Head(todo)},
                        !.examined = Append(@, <<pkg_key, Head(todo)>>)],
             depth)

\* collect_deps' loop without the "not in all_deps" guard.
CollectLoopUnguarded(todo, pkg_key, fd, st, depth) ==
    IF todo = <<>> \/ st.overflow THEN st
    ELSE LET dep_key == Head(todo)
             seen    == [st EXCEPT !.examined = Append(@, <<pkg_key, dep_key>>)]
             after   == collect_deps(
                            dep_key, fd,
                            [seen EXCEPT !.all_deps = @ \cup {dep_key}],
                            depth + 1)
         IN  CollectLoop(Tail(todo), pkg_key, fd, after, depth)

\* collect_deps' loop with all_deps handed to the recursive call by value:
\* what the callee adds is lost when it returns.
CollectLoopLocalSet(todo, pkg_key, fd, st, depth) ==
    IF todo = <<>> \/ st.overflow THEN st
    ELSE LET dep_key == Head(todo)
             seen    == [st EXCEPT !.examined = Append(@, <<pkg_key, dep_key>>)]
             mine    == seen.all_deps \cup {dep_key}
             after   == IF dep_key \notin seen.all_deps
                        THEN [collect_deps(
                                  dep_key, fd,
                                  [seen EXCEPT !.all_deps = mine],
                                  depth + 1)
                              EXCEPT !.all_deps = mine]
                        ELSE seen
         IN  CollectLoop(Tail(todo), pkg_key, fd, after, depth)

\* for dep_key in deps: if dep_key not in all_deps: add it, recurse.
CollectLoop(todo, pkg_key, fd, st, depth) ==
    IF todo = <<>> \/ st.overflow THEN st
    ELSE LET dep_key == Head(todo)
             seen    == [st EXCEPT !.examined = Append(@, <<pkg_key, dep_key>>)]
             after   == IF dep_key \notin seen.all_deps
                        THEN collect_deps(
                                 dep_key, fd,
                                 [seen EXCEPT !.all_deps = @ \cup {dep_key}],
                                 depth + 1)
                        ELSE seen
         IN  CollectLoop(Tail(todo), pkg_key, fd, after, depth)

(***************************************************************************)
(* package_dependencies (deps.py lines 201-345), called with flat_deps     *)
(* and info_by_key given.  What a call does: it returns a list, or an      *)
(* exception leaves it (KeyError from info_by_key[dep_key], packaging's    *)
(* InvalidSpecifier and InvalidVersion, ValueError for the format,         *)
(* RecursionError).                                                        *)
(***************************************************************************)
Returned(v) == [outcome |-> "returned", value |-> v]
Raised(kind) == [outcome |-> kind, value |-> <<>>]

\* for dep_key in all_deps: a Python set of strings iterates in the order
\* of the keys' hashes, which differs from run to run; hash_order is that
\* order on Keys.
SetIter(S, hash_order) == SelectSeq(hash_order, LAMBDA k : k \in S)

\* Lines 256-260: the requirement of the first package of flat_deps, in
\* its insertion order, that lists dep_key; "" when none does.
FirstRequirement(dep_key, fd) ==
    LET holders == {i \in 1..Len(fd.keys) : DictHas(fd.val[fd.keys[i]], dep_key)}
    IN  IF holders = {} THEN <<>>
        ELSE LET i == CHOOSE m \in holders : \A n \in holders : m <= n
             IN  fd.val[fd.keys[i]].val[dep_key]

\* Lines 254-278: the loop over all_deps of the transitive details branch.
RECURSIVE TransitiveDetailsLoop(_, _, _, _, _)
TransitiveDetailsLoop(todo, fd, info, only_problematic, details) ==
    IF todo = <<>> THEN Returned(details)
    ELSE LET dep_key          == Head(todo)
             required_version == FirstRequirement(dep_key, fd)
         IN  IF ~DictHas(info, dep_key) THEN Raised("KeyError")
             ELSE LET pkg_info  == info.val[dep_key]
                      installed == pkg_info.installed_version
                      record    == [package_name      |-> pkg_info.package_name,
                                    required_version  |-> required_version,
                                    installed_version |-> installed]
                      kept      == TransitiveDetailsLoop(
                                       Tail(todo), fd, info, only_problematic,
                                       Append(details, record))
                      dropped   == TransitiveDetailsLoop(
                                       Tail(todo), fd, info, only_problematic,
                                       details)
                  IN  IF ~only_problematic THEN kept
                      ELSE IF required_version = <<>> THEN dropped
                      ELSE IF ~SpecifierSet(required_version).valid
                           THEN Raised("InvalidSpecifier")
                      ELSE IF ~parse_version(installed).valid
                           THEN Raised("InvalidVersion")
                      ELSE IF ~SpecContains(SpecifierSet(required_version), installed)
                           THEN kept
                           ELSE dropped

\* The immediate details loop keeping the records whose installed version
\* is in the specifier ("in spec" for "not in spec").
RECURSIVE ImmediateDetailsLoopInverted(_, _, _, _, _)
ImmediateDetailsLoopInverted(todo, deps, info, only_problematic, details) ==
    IF todo = <<>> THEN Returned(details)
    ELSE LET dep_key == Head(todo)
             req_str == deps.val[dep_key]
         IN  IF ~DictHas(info, dep_key) THEN Raised("KeyError")
             ELSE LET pkg_info  == info.val[dep_key]
                      installed == pkg_info.installed_version
                      record    == [package_name      |-> pkg_info.package_name,
                                    required_version  |-> req_str,
                                    installed_version |-> installed]
                      kept      == ImmediateDetailsLoopInverted(
                                       Tail(todo), deps, info, only_problematic,
                                       Append(details, record))
                      dropped   == ImmediateDetailsLoopInverted(
                                       Tail(todo), deps, info, only_problematic,
                                       details)
                  IN  IF ~only_problematic THEN kept
                      ELSE IF req_str = <<>> THEN dropped
                      ELSE IF ~SpecifierSet(req_str).valid
                           THEN Raised("InvalidSpecifier")
                      ELSE IF ~parse_version(installed).valid
                           THEN Raised("InvalidVersion")
                      ELSE IF SpecContains(SpecifierSet(req_str), installed)
                           THEN kept
                           ELSE dropped

\* Lines 283-300: the loop over deps.items() of the immediate details branch.
RECURSIVE ImmediateDetailsLoop(_, _, _, _, _)
ImmediateDetailsLoop(todo, deps, info, only_problematic, details) ==
    IF todo = <<>> THEN Returned(details)
    ELSE LET dep_key == Head(todo)
             req_str == deps.val[dep_key]
         IN  IF ~DictHas(info, dep_key) THEN Raised("KeyError")
             ELSE LET pkg_info  == info.val[dep_key]
                      installed == pkg_info.installed_version
                      record    == [package_name      |-> pkg_info.package_name,
                                    required_version  |-> req_str,
                                    installed_version |-> installed]
                      kept      == ImmediateDetailsLoop(
                                       Tail(todo), deps, info, only_problematic,
                                       Append(details, record))
                      dropped   == ImmediateDetailsLoop(
                                       Tail(todo), deps, info, only_problematic,
                                       details)
                  IN  IF ~only_problematic THEN kept
                      ELSE IF req_str = <<>> THEN dropped
                      ELSE IF ~SpecifierSet(req_str).valid
                           THEN Raised("InvalidSpecifier")
                      ELSE IF ~parse_version(installed).valid
                           THEN Raised("InvalidVersion")
                      ELSE IF ~SpecContains(SpecifierSet(req_str), installed)
                           THEN kept
                           ELSE dropped

\* Lines 315-318: dep_items of the transitive branch: each collected key
\* with the requirement its own flat_deps entry gives for that same key.
TransitiveDepItems(all_deps_seq, fd) ==
    [i \in 1..Len(all_deps_seq) |->
        LET dep_key == all_deps_seq[i]
        IN  <<dep_key, DictGet(DictGet(fd, dep_key, EmptyDict), dep_key, <<>>)>>]

\* dep_items of the immediate branch built the way lines 315-318 build the
\* transitive ones.
ImmediateDepItemsSelf(package_key, fd) ==
    TransitiveDepItems(DictGet(fd, package_key, EmptyDict).keys, fd)

\* Lines 321-322: list(deps.items()) for the root's own entry.
ImmediateDepItems(package_key, fd) ==
    LET deps == DictGet(fd, package_key, EmptyDict)
    IN  [i \in 1..Len(deps.keys) |-> <<deps.keys[i], deps.val[deps.keys[i]]>>]

\* Lines 324-345: the loop that renders dep_items in the chosen format.
RECURSIVE FormatLoop(_, _, _, _)
FormatLoop(dep_items, format, info, out) ==
    IF dep_items = <<>> THEN Returned(out)
    ELSE LET dep_key == Head(dep_items)[1]
             req_str == Head(dep_items)[2]
         IN  IF ~DictHas(info, dep_key) THEN Raised("KeyError")
             ELSE LET pkg_name == info.val[dep_key].package_name
                      spec     == SpecifierSet(req_str)
                  IN  CASE format = "names" ->
                             FormatLoop(Tail(dep_items), format, info,
                                        Append(out, pkg_name))
                        [] format = "names_with_req" ->
                             FormatLoop(Tail(dep_items), format, info,
                                        Append(out, IF req_str # <<>>
                                                    THEN pkg_name \o req_str
                                                    ELSE pkg_name))
                        [] format = "tuples" ->
                             IF req_str # <<>> /\ ~spec.valid
                             THEN Raised("InvalidSpecifier")
                             ELSE FormatLoop(
                                      Tail(dep_items), format, info,
                                      Append(out,
                                             IF req_str # <<>>
                                             THEN <<pkg_name, spec.operator, spec.version>>
                                             ELSE <<pkg_name, <<>>, <<>> >>))
                        [] OTHER -> Raised("ValueError")

\* The call.  a is the record of its arguments.
package_dependencies(a, fd, info, hash_order) ==
    LET st == collect_deps(a.package_key, fd, CollectStart, 1)
    IN  IF a.include_details
        THEN IF a.include_transitive
             THEN IF st.overflow THEN Raised("RecursionError")
                  ELSE TransitiveDetailsLoop(
                           SetIter(st.all_deps, hash_order), fd, info,
                           a.only_include_problematic_versions, <<>>)
             ELSE LET deps == DictGet(fd, a.package_key, EmptyDict)
                  IN  ImmediateDetailsLoop(
                          deps.keys, deps, info,
                          a.only_include_problematic_versions, <<>>)
        ELSE IF a.include_transitive
             THEN IF st.overflow THEN Raised("RecursionError")
                  ELSE FormatLoop(
                           TransitiveDepItems(SetIter(st.all_deps, hash_order), fd),
                           a.format, info, <<>>)
             ELSE FormatLoop(ImmediateDepItems(a.package_key, fd),
                             a.format, info, <<>>)

(***************************************************************************)
(* The raw trees the runs start from: what package_dependencies_tree       *)
(* returns (deps.py lines 15-64): one record per known package, each       *)
(* listing its immediate dependencies.  A dependency that is required but  *)
(* not installed has no record of its own.                                 *)
(***************************************************************************)
EdgeSets == {E \in SUBSET (Keys \X Keys) : Cardinality(E) <= MaxEdges}

Reverse(s) == [i \in 1..Len(s) |-> s[Len(s) + 1 - i]]

\* The requirement string on the edge p -> d in the v-th labelling.
EdgeReq(p, d, v) == ReqList[((KeyIndex(p) + 2 * KeyIndex(d) + v) % Len(ReqList)) + 1]

RawDependency(p, d, v) ==
    [key               |-> d,
     package_name      |-> PackageName(d),
     installed_version |-> InstalledVersion(d),
     required_version  |-> EdgeReq(p, d, v)]

RawRecord(p, E, v, order) ==
    LET ds == SelectSeq(order, LAMBDA d : <<p, d>> \in E)
    IN  [package      |-> [key               |-> p,
                           package_name      |-> PackageName(p),
                           installed_version |-> InstalledVersion(p)],
         dependencies |-> [i \in 1..Len(ds) |-> RawDependency(p, ds[i], v)]]

RawTree(E, v, known, order) ==
    LET ps == SelectSeq(order, LAMBDA p : p \in known)
    IN  [i \in 1..Len(ps) |-> RawRecord(ps[i], E, v, order)]

RawTrees ==
    {RawTree(E, v, known, order) :
        E \in EdgeSets, v \in 0..(Len(ReqList) - 1),
        known \in (SUBSET Keys) \ {{}}, order \in {KeyOrder, Reverse(KeyOrder)}}

Perms(S) ==
    {s \in [1..Cardinality(S) -> S] : \A i, j \in DOMAIN s : i # j => s[i] # s[j]}

\* The calls of package_dependencies that are made.  The arguments a call
\* does not read keep their defaults, but for the format of a details call,
\* which is the default or an unknown one.
Calls ==
    {[package_key |-> k, format |-> f, include_transitive |-> t,
      include_details |-> d, only_include_problematic_versions |-> o] :
        k \in Keys, f \in Formats, t \in BOOLEAN, d \in BOOLEAN, o \in BOOLEAN}

QueryCalls ==
    {a \in Calls :
        /\ a.include_details => a.format \in {"names", "json"}
        /\ ~a.include_details => ~a.only_include_problematic_versions}

NoCall == [package_key |-> "", format |-> "", include_transitive |-> FALSE,
           include_details |-> FALSE, only_include_problematic_versions |-> FALSE]

Init ==
    /\ data \in RawTrees
    /\ info_by_key = EmptyDict
    /\ flat_deps = EmptyDict
    /\ pc = "raw"
    /\ call = NoCall
    /\ collected = CollectStart
    /\ result = Returned(<<>>)

\* info_by_key, flat_deps = parse_pipdeptree(d)
Parse ==
    /\ pc = "raw"
    /\ info_by_key' = parse_pipdeptree(data).info_by_key
    /\ flat_deps' = parse_pipdeptree(data).flat_deps
    /\ pc' = "parsed"
    /\ UNCHANGED <<data, call, collected, result>>

\* package_dependencies(k, format, flat_deps=..., info_by_key=..., ...)
Query ==
    /\ pc = "parsed"
    /\ \E a \in QueryCalls, hash_order \in Perms(Keys) :
        /\ call' = a
        /\ collected' = IF a.include_transitive
                        THEN collect_deps(a.package_key, flat_deps, CollectStart, 1)
                        ELSE CollectStart
        /\ result' = package_dependencies(a, flat_deps, info_by_key, hash_order)
    /\ pc' = "queried"
    /\ UNCHANGED <<data, info_by_key, flat_deps>>

\* build_nested_deps(k, flat_deps)
Nested ==
    /\ pc = "parsed"
    /\ \E k \in Keys :
        /\ call' = [NoCall EXCEPT !.package_key = k]
        /\ result' = LET r == build_nested_deps(k, flat_deps)
                     IN  IF r.ok THEN Returned(r.value) ELSE Raised("RecursionError")
    /\ pc' = "nested"
    /\ UNCHANGED <<data, info_by_key, flat_deps, collected>>

Next == Parse \/ Query \/ Nested

Spec == Init /\ [][Next]_vars

(***************************************************************************)
(* Vocabulary of the properties, defined on the adjacency map alone.       *)
(***************************************************************************)
\* The keys d with an edge k -> d.
Successors(fd, k) == IF DictHas(fd, k) THEN DOMAIN fd.val[k].val ELSE {}

RECURSIVE Closure(_, _)
Closure(S, fd) ==
    LET T == S \cup UNION {Successors(fd, k) : k \in S}
    IN  IF T = S THEN S ELSE Closure(T, fd)

\* The keys reachable from root by one or more edges.
Reachable(root, fd) == Closure(Successors(fd, root), fd)

\* root lies on a cycle.
OnCycle(root, fd) == root \in Reachable(root, fd)

Known(info, k) == DictHas(info, k)
NameOf(info, k) == info.val[k].package_name

NamesQuery ==
    /\ pc = "queried"
    /\ call.include_transitive
    /\ ~call.include_details
    /\ call.format = "names"

(***************************************************************************)
(* C1: a transitive "names" query whose reachable keys all have an         *)
(* info_by_key entry returns the display names of exactly the keys         *)
(* reachable from the root by one or more edges, each key once; the root's *)
(* own name is in the list if and only if the root lies on a cycle.        *)
(***************************************************************************)
C1_ClosureNames ==
    (NamesQuery /\ \A k \in Reachable(call.package_key, flat_deps) :
                        Known(info_by_key, k))
    => LET R == Reachable(call.package_key, flat_deps)
       IN  /\ result.outcome = "returned"
           /\ Len(result.value) = Cardinality(R)
           /\ RangeOf(result.value) = {NameOf(info_by_key, k) : k \in R}
           /\ collected.all_deps = R
           /\ Known(info_by_key, call.package_key) =>
                 (NameOf(info_by_key, call.package_key) \in RangeOf(result.value)
                    <=> OnCycle(call.package_key, flat_deps))

\* A root on a cycle through the two other keys, reported with them.
C1_Witness ==
    /\ NamesQuery
    /\ result.outcome = "returned"
    /\ OnCycle(call.package_key, flat_deps)
    /\ call.package_key \notin Successors(flat_deps, call.package_key)
    /\ Len(result.value) = 3
    /\ NameOf(info_by_key, call.package_key) \in RangeOf(result.value)

\* No key at or below k lies on a cycle.
AcyclicBelow(k, fd) ==
    \A x \in {k} \cup Reachable(k, fd) : ~OnCycle(x, fd)

\* tree is the nested view of k: one node per entry of flat_deps[k], with
\* that edge's requirement and, below it, the nested view of the dependency.
RECURSIVE IsNestedView(_, _, _)
IsNestedView(tree, k, fd) ==
    /\ DOMAIN tree.val = Successors(fd, k)
    /\ RangeOf(tree.keys) = Successors(fd, k)
    /\ Len(tree.keys) = Cardinality(Successors(fd, k))
    /\ \A d \in Successors(fd, k) :
        /\ tree.val[d].required_version = fd.val[k].val[d]
        /\ IsNestedView(tree.val[d].dependencies, d, fd)

(***************************************************************************)
(* C2: on an adjacency map with no cycle at or below k,                    *)
(* build_nested_deps(k, flat_deps) returns a mapping whose keys are        *)
(* exactly the keys of flat_deps[k] (empty when k has no entry), each node *)
(* holding the edge's required_version and, as dependencies, the nested    *)
(* view of that dependency.                                                *)
(***************************************************************************)
C2_NestedView ==
    (pc = "nested" /\ AcyclicBelow(call.package_key, flat_deps))
    => /\ result.outcome = "returned"
       /\ IsNestedView(result.value, call.package_key, flat_deps)
       /\ ~DictHas(flat_deps, call.package_key) => result.value = EmptyDict

\* A chain k -> d -> e rendered two levels deep, as in A -> B -> C.
C2_Witness ==
    /\ pc = "nested"
    /\ AcyclicBelow(call.package_key, flat_deps)
    /\ result.outcome = "returned"
    /\ \E d \in DOMAIN result.value.val :
        \E e \in DOMAIN result.value.val[d].dependencies.val :
            /\ result.value.val[d].required_version # <<>>
            /\ result.value.val[d].dependencies.val[e].dependencies = EmptyDict

\* The nested view with the cycle guard the specification asks for: a
\* dependency already on the active path gets an empty dependencies map.
RECURSIVE TruncatedView(_, _, _)
TruncatedView(k, fd, path) ==
    LET deps == DictGet(fd, k, EmptyDict)
    IN  [keys |-> deps.keys,
         val  |-> [d \in DOMAIN deps.val |->
                      [required_version |-> deps.val[d],
                       dependencies     |-> IF d \in path THEN EmptyDict
                                            ELSE TruncatedView(d, fd, path \cup {d})]]]

(***************************************************************************)
(* C3: build_nested_deps terminates with a finite nested structure also    *)
(* when flat_deps has a cycle: a dependency key already on the active      *)
(* recursion path is emitted with an empty dependencies map.               *)
(***************************************************************************)
C3_CycleTruncation ==
    pc = "nested"
    => /\ result.outcome = "returned"
       /\ result.value = TruncatedView(call.package_key, flat_deps,
                                       {call.package_key})

TransitiveQuery == pc = "queried" /\ call.include_transitive

\* The keys the snapshot mentions, as a package or as a dependency.
Mentioned(fd) == DOMAIN fd.val \cup UNION {DOMAIN fd.val[k].val : k \in DOMAIN fd.val}

(***************************************************************************)
(* C4: the transitive collection of package_dependencies terminates on     *)
(* every adjacency map, cyclic ones and self-loops included, in the        *)
(* details branch and in the other: the recursion never runs away, it      *)
(* makes at most one call per collected key besides the root's, and the    *)
(* set it leaves holds only keys of the map.                               *)
(***************************************************************************)
C4_CollectTerminates ==
    TransitiveQuery
    => /\ ~collected.overflow
       /\ result.outcome # "RecursionError"
       /\ collected.all_deps \subseteq Mentioned(flat_deps)
       /\ Len(collected.expanded) = 1 + Cardinality(collected.all_deps)

\* A details query and a names query on a two-cycle and on a self-loop.
C4_Witness ==
    /\ TransitiveQuery
    /\ call.include_details
    /\ result.outcome = "returned"
    /\ \E k \in collected.all_deps :
        /\ k # call.package_key
        /\ call.package_key \in Successors(flat_deps, k)
        /\ k \in Successors(flat_deps, call.package_key)
    /\ \E k \in collected.all_deps : k \in Successors(flat_deps, k)

\* The requirement strings on the edges into d.
IncomingReqs(fd, d) ==
    {fd.val[p].val[d] : p \in {q \in DOMAIN fd.val : DictHas(fd.val[q], d)}}

(***************************************************************************)
(* C5: a transitive query (the default) renders the requirement of every   *)
(* reported dependency whose incoming edges carry a non-empty one:         *)
(* "names_with_req" gives the display name followed by the requirement of  *)
(* an incoming edge, "tuples" gives (name, operator, version) of it;       *)
(* never the bare name or an empty operator and version.                   *)
(***************************************************************************)
C5_RequirementRendered ==
    (/\ TransitiveQuery
     /\ ~call.include_details
     /\ result.outcome = "returned")
    => \A d \in collected.all_deps :
         LET reqs == IncomingReqs(flat_deps, d)
             name == NameOf(info_by_key, d)
         IN  (\A r \in reqs : SpecifierSet(r).valid)
             => /\ call.format = "names_with_req"
                   => \E r \in reqs : name \o r \in RangeOf(result.value)
                /\ call.format = "tuples"
                   => \E r \in reqs :
                        <<name, SpecifierSet(r).operator, SpecifierSet(r).version>>
                            \in RangeOf(result.value)

ImmediateQuery == pc = "queried" /\ ~call.include_transitive

\* flat_deps.get(root, {}) of the query made.
RootDeps == DictGet(flat_deps, call.package_key, EmptyDict)

(***************************************************************************)
(* C6: with include_transitive=False the query reports one item per entry  *)
(* of flat_deps[root], in the entry's place, and nothing else (nothing at  *)
(* all when the root has no entry); the item carries that edge's own       *)
(* required_version: in "names_with_req" the display name followed by the  *)
(* requirement, or the bare name when it is empty; in details the edge's   *)
(* required_version and the installed_version of info_by_key.              *)
(***************************************************************************)
C6_ImmediateOnly ==
    (ImmediateQuery /\ ~call.only_include_problematic_versions)
    => LET deps  == RootDeps
           known == \A d \in DOMAIN deps.val : Known(info_by_key, d)
       IN  /\ (known /\ (call.include_details
                          \/ call.format \in {"names", "names_with_req"}))
              => result.outcome = "returned"
           /\ result.outcome = "returned"
              => /\ Len(result.value) = Len(deps.keys)
                 /\ Len(result.value) = Cardinality(Successors(flat_deps, call.package_key))
                 /\ \A i \in 1..Len(deps.keys) :
                      LET d    == deps.keys[i]
                          req  == deps.val[d]
                          name == NameOf(info_by_key, d)
                      IN  /\ call.include_details
                             => result.value[i] =
                                  [package_name      |-> name,
                                   required_version  |-> req,
                                   installed_version |->
                                       info_by_key.val[d].installed_version]
                          /\ (~call.include_details /\ call.format = "names")
                             => result.value[i] = name
                          /\ (~call.include_details /\ call.format = "names_with_req")
                             => result.value[i] =
                                  (IF req = <<>> THEN name ELSE name \o req)

\* Two direct dependencies, one with a requirement and one without, in
\* "names_with_req"; the root has a transitive dependency that is left out.
C6_Witness ==
    /\ ImmediateQuery
    /\ ~call.include_details
    /\ call.format = "names_with_req"
    /\ result.outcome = "returned"
    /\ Len(result.value) = 2
    /\ \E d \in DOMAIN RootDeps.val :
        /\ RootDeps.val[d] = <<>>
        /\ NameOf(info_by_key, d) \in RangeOf(result.value)
    /\ \E d \in DOMAIN RootDeps.val :
        /\ RootDeps.val[d] # <<>>
        /\ NameOf(info_by_key, d) \o RootDeps.val[d] \in RangeOf(result.value)
    /\ Reachable(call.package_key, flat_deps) # Successors(flat_deps, call.package_key)

ProblematicQuery ==
    /\ pc = "queried"
    /\ call.include_details
    /\ call.only_include_problematic_versions

\* The same query with only_include_problematic_versions=False.
Unfiltered ==
    package_dependencies(
        [call EXCEPT !.only_include_problematic_versions = FALSE],
        flat_deps, info_by_key, KeyOrder)

\* The record's installed version does not satisfy its requirement.
Violates(r) ==
    ~SpecContains(SpecifierSet(r.required_version), r.installed_version)

Req_lt_2_0 == <<"<", "2", ".", "0">>
Req_ge_1_0 == <<">", "=", "1", ".", "0">>
Ver_2_1 == <<"2", ".", "1">>
Ver_1_5 == <<"1", ".", "5">>
Ver_0_9 == <<"0", ".", "9">>

(***************************************************************************)
(* C7: a details query with only_include_problematic_versions=True that    *)
(* returns, returns exactly the records of the dependencies in scope whose *)
(* required_version is non-empty and not satisfied by the installed        *)
(* version: required "<2.0" with installed "2.1" is in, required ">=1.0"   *)
(* with installed "1.5" is out, an empty requirement is always out; and    *)
(* the records are among those of the unfiltered query.                    *)
(***************************************************************************)
C7_ProblematicOnly ==
    (ProblematicQuery /\ result.outcome = "returned")
    => LET full == RangeOf(Unfiltered.value)
           got  == RangeOf(result.value)
       IN  /\ Unfiltered.outcome = "returned"
           /\ got \subseteq full
           /\ got = {r \in full : r.required_version # <<>> /\ Violates(r)}
           /\ Len(result.value) = Cardinality(got)
           /\ \A r \in full :
                /\ r.required_version = <<>> => r \notin got
                /\ (r.required_version = Req_lt_2_0 /\ r.installed_version = Ver_2_1)
                   => r \in got
                /\ (r.required_version = Req_ge_1_0 /\ r.installed_version = Ver_1_5)
                   => r \notin got
                /\ (r.required_version = Req_ge_1_0 /\ r.installed_version = Ver_0_9)
                   => r \in got
                /\ (r.required_version = Req_lt_2_0 /\ r.installed_version = Ver_1_5)
                   => r \notin got

\* Three dependencies in scope: "<2.0" with 2.1 installed, which is the one
\* record returned, one satisfied requirement, and one empty requirement.
C7_Witness ==
    /\ ProblematicQuery
    /\ call.include_transitive
    /\ result.outcome = "returned"
    /\ Len(result.value) = 1
    /\ result.value[1].required_version = Req_lt_2_0
    /\ result.value[1].installed_version = Ver_2_1
    /\ Len(Unfiltered.value) = 3
    /\ \E r \in RangeOf(Unfiltered.value) : r.required_version = <<>>
    /\ \E r \in RangeOf(Unfiltered.value) :
        r.required_version # <<>> /\ r \notin RangeOf(result.value)

\* The keys that occur in the raw tree, as a package or as a dependency,
\* and what the raw tree says of each.
RootKeys == {data[i].package.key : i \in DOMAIN data}
DependencyKeys ==
    UNION {{data[i].dependencies[j].key : j \in DOMAIN data[i].dependencies} :
              i \in DOMAIN data}
Described(k) ==
    {[package_name      |-> data[i].package.package_name,
      installed_version |-> data[i].package.installed_version] :
        i \in {n \in DOMAIN data : data[n].package.key = k}}
    \cup
    UNION {{[package_name      |-> data[i].dependencies[j].package_name,
             installed_version |-> data[i].dependencies[j].installed_version] :
               j \in {m \in DOMAIN data[i].dependencies :
                         data[i].dependencies[m].key = k}} :
              i \in DOMAIN data}

(***************************************************************************)
(* C8: after parse_pipdeptree(data) every package key that occurs in data, *)
(* as a record's package.key or as the key of a dependency, has exactly    *)
(* one entry in info_by_key, holding that package's own package_name and   *)
(* installed_version; also a key that occurs only as a dependency.         *)
(***************************************************************************)
C8_InfoIndexTotal ==
    pc # "raw"
    => \A k \in RootKeys \cup DependencyKeys :
         /\ DictHas(info_by_key, k)
         /\ Cardinality({i \in DOMAIN info_by_key.keys : info_by_key.keys[i] = k}) = 1
         /\ info_by_key.val[k] \in Described(k)

(***************************************************************************)
(* C9: after parse_pipdeptree(data), for every record r of data,           *)
(* flat_deps[r.package.key] exists and maps exactly the keys of            *)
(* r.dependencies to their required_version, one entry per dependency; a   *)
(* record without dependencies gives a present key with an empty map,      *)
(* while a key without record has no entry; and parsing the same data      *)
(* again gives an equal (info_by_key, flat_deps).                          *)
(***************************************************************************)
C9_AdjacencyMap ==
    pc # "raw"
    => /\ \A i \in DOMAIN data :
            LET r    == data[i]
                deps == flat_deps.val[r.package.key]
            IN  /\ DictHas(flat_deps, r.package.key)
                /\ DOMAIN deps.val = {r.dependencies[j].key : j \in DOMAIN r.dependencies}
                /\ Len(deps.keys) = Len(r.dependencies)
                /\ \A j \in DOMAIN r.dependencies :
                     /\ deps.keys[j] = r.dependencies[j].key
                     /\ deps.val[r.dependencies[j].key]
                            = r.dependencies[j].required_version
                /\ r.dependencies = <<>> => deps = EmptyDict
       /\ DOMAIN flat_deps.val = RootKeys
       /\ flat_deps.keys = [i \in DOMAIN data |-> data[i].package.key]
       /\ parse_pipdeptree(data)
              = [info_by_key |-> info_by_key, flat_deps |-> flat_deps]

\* A record with two dependencies, of which one has a record without
\* dependencies (a known leaf) and the other has no record (no entry).
C9_Witness ==
    /\ pc = "parsed"
    /\ \E k \in DOMAIN flat_deps.val :
        /\ Len(flat_deps.val[k].keys) = 2
        /\ \E d \in DOMAIN flat_deps.val[k].val :
            DictHas(flat_deps, d) /\ flat_deps.val[d] = EmptyDict
        /\ \E d \in DOMAIN flat_deps.val[k].val : ~DictHas(flat_deps, d)

\* The dependencies the query made goes through.
InScope ==
    IF call.include_transitive
    THEN Reachable(call.package_key, flat_deps)
    ELSE Successors(flat_deps, call.package_key)

(***************************************************************************)
(* C10: package_dependencies raises, rather than return a result, when     *)
(* the query root has no entry in info_by_key or when a dependency key of  *)
(* a traversed edge has none; a query for an unknown root does not return  *)
(* an empty list as if the root were a known leaf.                         *)
(***************************************************************************)
C10_UnknownKeyRaises ==
    (/\ pc = "queried"
     /\ \/ ~Known(info_by_key, call.package_key)
        \/ \E d \in InScope : ~Known(info_by_key, d))
    => result.outcome # "returned"

\* The part of C10 about dependency keys alone.
UnknownDependencyRaises ==
    (pc = "queried" /\ \E d \in InScope : ~Known(info_by_key, d))
    => result.outcome # "returned"

\* The formats the docstring of package_dependencies lists.
RecognizedFormats == {"names", "names_with_req", "tuples"}

(***************************************************************************)
(* C11: package_dependencies called with a format other than the           *)
(* recognized ones raises on every input, also for a root without          *)
(* dependencies and with include_details=True, and it raises at call       *)
(* time: no collect_deps call has been made by then.                       *)
(***************************************************************************)
C11_UnknownFormatFailsFast ==
    (pc = "queried" /\ call.format \notin RecognizedFormats)
    => /\ result.outcome = "ValueError"
       /\ collected.expanded = <<>>

\* The part of C11 the code keeps: an unknown format with at least one
\* dependency to render, all of them known, raises ValueError.
UnknownFormatRaisesOnItems ==
    (/\ pc = "queried"
     /\ call.format \notin RecognizedFormats
     /\ ~call.include_details
     /\ InScope # {}
     /\ \A d \in InScope : Known(info_by_key, d))
    => result.outcome = "ValueError"

\* The record's requirement or installed version cannot be parsed.
Unparseable(r) ==
    /\ r.required_version # <<>>
    /\ \/ ~SpecifierSet(r.required_version).valid
       \/ ~parse_version(r.installed_version).valid

(***************************************************************************)
(* C12: in a details query with only_include_problematic_versions=True     *)
(* over several dependencies, one whose required_version (such as 'Any')   *)
(* or installed_version cannot be parsed does not abort the call: the call *)
(* returns, and the records of the other dependencies are evaluated and    *)
(* returned as they would be without it.                                   *)
(***************************************************************************)
C12_BadRequirementIsolated ==
    (/\ ProblematicQuery
     /\ Unfiltered.outcome = "returned"
     /\ Len(Unfiltered.value) >= 2
     /\ \E r \in RangeOf(Unfiltered.value) : Unparseable(r))
    => /\ result.outcome = "returned"
       /\ \A r \in RangeOf(Unfiltered.value) :
            (r.required_version # <<>> /\ ~Unparseable(r))
            => (r \in RangeOf(result.value) <=> Violates(r))

\* What the code does there: the first unparseable requirement the loop
\* meets leaves the call as InvalidSpecifier.
UnparseableRequirementAborts ==
    (/\ ProblematicQuery
     /\ Unfiltered.outcome = "returned"
     /\ \E r \in RangeOf(Unfiltered.value) : Unparseable(r))
    => result.outcome = "InvalidSpecifier"

\* How many times x occurs in the sequence.
Count(seq, x) == Cardinality({i \in 1..Len(seq) : seq[i] = x})

(***************************************************************************)
(* C13: during one transitive collection every package key is expanded at  *)
(* most once and every edge is examined at most once, on every graph,      *)
(* including those in which the root is reachable from itself.             *)
(***************************************************************************)
C13_ExpandedOnce ==
    TransitiveQuery
    => /\ \A k \in RangeOf(collected.expanded) :
            Count(collected.expanded, k) = 1
       /\ \A e \in RangeOf(collected.examined) :
            Count(collected.examined, e) = 1

(***************************************************************************)
(* C13, amended: every key other than the root is expanded at most once;   *)
(* the root, which is not in all_deps when the collection starts, is       *)
(* expanded once, or twice exactly when it is reachable from itself; every *)
(* edge is examined as many times as its source is expanded, so only the   *)
(* root's outgoing edges can be examined twice.                            *)
(***************************************************************************)
C13_ExpandedOnceBelowRoot ==
    TransitiveQuery
    => /\ \A k \in RangeOf(collected.expanded) \ {call.package_key} :
            Count(collected.expanded, k) = 1
       /\ Count(collected.expanded, call.package_key)
            = IF call.package_key \in Reachable(call.package_key, flat_deps)
              THEN 2 ELSE 1
       /\ \A e \in RangeOf(collected.examined) :
            Count(collected.examined, e) = Count(collected.expanded, e[1])

\* A root on a cycle through another key, below which a key has incoming
\* edges from two other keys: the root is expanded twice, the shared key once.
C13_Witness ==
    /\ TransitiveQuery
    /\ call.package_key \in Reachable(call.package_key, flat_deps)
    /\ call.package_key \notin Successors(flat_deps, call.package_key)
    /\ Count(collected.expanded, call.package_key) = 2
    /\ \E d \in Keys \ {call.package_key} :
         /\ Cardinality({p \in Keys \ {d} : d \in Successors(flat_deps, p)}) >= 2
         /\ Count(collected.expanded, d) = 1

\* The requirement strings on the edges into d whose source is the root or
\* a package of the root's transitive closure.
ClosureReqs(root, fd, d) ==
    {fd.val[p].val[d] :
        p \in {q \in (({root} \cup Reachable(root, fd)) \cap DOMAIN fd.val) :
                  DictHas(fd.val[q], d)}}

\* The returned details records that describe dependency d.
RecordsOf(d) ==
    {r \in RangeOf(result.value) :
        r.package_name = info_by_key.val[d].package_name}

\* A transitive details query that returned.
TransitiveDetailsQuery ==
    /\ TransitiveQuery
    /\ call.include_details
    /\ result.outcome = "returned"

(***************************************************************************)
(* C14: in a transitive details query the required_version reported for a  *)
(* dependency d is that of an edge p->d whose source p is the root or in   *)
(* the root's transitive closure; never that of a package of flat_deps     *)
(* unreachable from the root, and empty only if such an edge's is empty.   *)
(***************************************************************************)
C14_RequirementFromClosure ==
    TransitiveDetailsQuery
    => \A d \in Reachable(call.package_key, flat_deps) :
         \A r \in RecordsOf(d) :
            r.required_version \in ClosureReqs(call.package_key, flat_deps, d)

\* What the code keeps: the reported requirement is that of some edge into
\* d of the supplied flat_deps, the first in its insertion order.
RequirementFromFirstHolder ==
    TransitiveDetailsQuery
    => \A d \in Reachable(call.package_key, flat_deps) :
         \A r \in RecordsOf(d) :
            /\ r.required_version = FirstRequirement(d, flat_deps)
            /\ r.required_version \in IncomingReqs(flat_deps, d)

====
